---- MODULE Spec2Model ----
(***************************************************************************)
(* libsql-orm: the persistence adapter (lib/database.js), the statement    *)
(* synthesizer (lib/sql.js) and the storage engine behind the connection   *)
(* handle, as a state machine.  One action per adapter operation.          *)
(***************************************************************************)
EXTENDS Integers, Sequences, FiniteSets, TLC

(* ------------------------------ bounds -------------------------------- *)

\* largest row identifier the engine hands out or a caller supplies
MaxId == 2
\* number of distinct instants of the clock (new Date()) and of caller Dates
MaxTime == 1
\* number of distinct e-mail literals a caller supplies
MaxEmail == 2
\* the longest array operand of a criteria operator
MaxList == 2
\* the longest column list drawn for the synthesizer's createTable
MaxColumns == 3

(* ------------------------------ values -------------------------------- *)
\* A JavaScript / SQLite value: a tag and an integer payload.
\*   undef, null         : v = 0
\*   bool                : v = 1 (true), 0 (false)
\*   int                 : the number
\*   str                 : the v-th string literal (0 is the empty string)
\*   date                : a Date at instant v (-1: Invalid Date)
\*   iso                 : the ISO-8601 text of instant v (a string)
V(t, v) == [t |-> t, v |-> v]
UNDEF == V("undef", 0)
NULL == V("null", 0)
JTrue == V("bool", 1)
JFalse == V("bool", 0)
Num(n) == V("int", n)
Str(n) == V("str", n)
Date(n) == V("date", n)

\* JavaScript truthiness (the `!x` tests of database.js and sql.js)
Truthy(x) ==
  CASE x.t \in {"undef", "null"} -> FALSE
    [] x.t \in {"bool", "int", "str"} -> x.v # 0
    [] OTHER -> TRUE

\* Date.prototype.toISOString
toISOString(d) == V("iso", d.v)

\* a mutation of NewDate: the stored text is handed back as it is
NewDateKeepsText(x) == x

\* new Date(value)
NewDate(x) ==
  CASE x.t = "iso" -> Date(x.v)
    [] x.t = "int" -> Date(x.v)
    [] x.t = "date" -> x
    [] x.t = "bool" -> Date(x.v)
    [] x.t = "null" -> Date(0)
    [] OTHER -> Date(-1)

\* an object: a function from its keys to values
EmptyObj == [k \in {} |-> UNDEF]
Get(o, k) == IF k \in DOMAIN o THEN o[k] ELSE UNDEF
Put(o, k, x) == [j \in DOMAIN o \cup {k} |-> IF j = k THEN x ELSE o[j]]

\* String.prototype.toUpperCase on the pieces of text the model uses: the
\* identifiers in their casings, the operator and combinator keys of
\* criteria, and the literal pieces the synthesizer puts into names
UpperPairs ==
  {<< "id", "ID" >>, << "Id", "ID" >>, << "ID", "ID" >>,
   << "email", "EMAIL" >>, << "Email", "EMAIL" >>, << "EMAIL", "EMAIL" >>,
   << "active", "ACTIVE" >>, << "ACTIVE", "ACTIVE" >>,
   << "created_at", "CREATED_AT" >>, << "CREATED_AT", "CREATED_AT" >>,
   << "updated_at", "UPDATED_AT" >>, << "UPDATED_AT", "UPDATED_AT" >>,
   << "nickname", "NICKNAME" >>, << "NICKNAME", "NICKNAME" >>,
   << "users", "USERS" >>, << "Users", "USERS" >>, << "USERS", "USERS" >>,
   << "a", "A" >>, << "A", "A" >>, << "b", "B" >>, << "B", "B" >>,
   << "$or", "$OR" >>, << "$Or", "$OR" >>, << "$OR", "$OR" >>,
   << "$and", "$AND" >>, << "$AND", "$AND" >>,
   << "$nor", "$NOR" >>, << "$NOR", "$NOR" >>,
   << "OR", "OR" >>, << "AND", "AND" >>, << "NOR", "NOR" >>,
   << "=", "=" >>, << "!=", "!=" >>, << ">", ">" >>, << "<", "<" >>,
   << ">=", ">=" >>, << "<=", "<=" >>,
   << "like", "LIKE" >>, << "Like", "LIKE" >>, << "LIKE", "LIKE" >>,
   << "in", "IN" >>, << "IN", "IN" >>,
   << "between", "BETWEEN" >>, << "BETWEEN", "BETWEEN" >>,
   << "is null", "IS NULL" >>, << "IS NULL", "IS NULL" >>,
   << "is not null", "IS NOT NULL" >>, << "IS NOT NULL", "IS NOT NULL" >>,
   << "~", "~" >>,
   << "idx_", "IDX_" >>, << "_", "_" >>, << "_in_", "_IN_" >>, << "_IN_", "_IN_" >>,
   << "_like", "_LIKE" >>, << "_LIKE", "_LIKE" >>,
   << "_BETWEEN_1", "_BETWEEN_1" >>, << "_BETWEEN_2", "_BETWEEN_2" >>,
   << "0", "0" >>, << "1", "1" >>, << "2", "2" >>, << "3", "3" >>}

upperOf ==
  [s \in {p[1] : p \in UpperPairs} |->
     (CHOOSE p \in UpperPairs : p[1] = s)[2]]
toUpperCase(s) == upperOf[s]

(* -------------------------- column descriptors ------------------------ *)

column(name, type, required, indexed, unique, primaryKey, auto) ==
  [name |-> name, type |-> type, required |-> required, indexed |-> indexed,
   unique |-> unique, primaryKey |-> primaryKey, auto |-> auto]

primaryInteger(name) == column(name, "INTEGER", FALSE, FALSE, FALSE, TRUE, TRUE)
string(name, required, indexed, unique) ==
  column(name, "STRING", required, indexed, unique, FALSE, FALSE)
boolean(name, required) ==
  column(name, "BOOLEAN", required, FALSE, FALSE, FALSE, FALSE)
timestamp(name, required) ==
  column(name, "TIMESTAMP", required, FALSE, FALSE, FALSE, FALSE)

\* the schema with the e-mail column not unique (a mutation of userColumns)
userColumnsNotUnique ==
  << primaryInteger("id"),
     string("email", TRUE, TRUE, FALSE),
     boolean("active", TRUE),
     timestamp("created_at", TRUE),
     timestamp("updated_at", FALSE) >>

\* the users schema of the tests (the string columns other than email left out)
userColumns ==
  << primaryInteger("id"),
     string("email", TRUE, TRUE, TRUE),
     boolean("active", TRUE),
     timestamp("created_at", TRUE),
     timestamp("updated_at", FALSE) >>

Max(a, b) == IF a >= b THEN a ELSE b

MaxOf(S) == IF S = {} THEN 0 ELSE CHOOSE x \in S : \A y \in S : x >= y

(* ------------------------ lib/sql.js: synthesizer --------------------- *)
\* A statement is kept structured instead of as text:
\*   kind   the statement's leading keywords
\*   table  the table it names
\*   cols   the columns it names (INSERT column list, UPDATE SET list)
\*   defs   the column definitions of CREATE TABLE, in emitted order
\*   uniq   CREATE UNIQUE INDEX
\*   id     the literal spliced into SELECT ... WHERE ID = <id>
\* A statement: what it does, the table and column names in its text, the
\* column definitions and uniqueness of a CREATE, the literal identifier of
\* a SELECT by id, and the name of the index a CREATE INDEX makes.  A name
\* is the sequence of the pieces of text it is put together from.
Stmt(kind, table, cols, defs, uniq, id) ==
  [kind |-> kind, table |-> table, cols |-> cols, defs |-> defs,
   uniq |-> uniq, id |-> id, name |-> << >>]

mapTypeToSQLite(type) ==
  CASE type = "INTEGER" -> "INTEGER"
    [] type = "STRING" -> "VARCHAR"
    [] type = "BLOB" -> "BLOB"
    [] type = "BOOLEAN" -> "INTEGER"
    [] type = "DATE" -> "VARCHAR(10)"
    [] type = "FLOAT" -> "REAL"
    [] type = "TIME" -> "VARCHAR(12)"
    [] type = "TIMESTAMP" -> "VARCHAR(23)"
    [] OTHER -> "Unsupported type"

\* a mutation of RemoveAt: the first element is removed, wherever i points
RemoveFirst(s, i) == Tail(s)

\* columnDefinitions.splice(i, 1)
RemoveAt(s, i) == [j \in 1..(Len(s) - 1) |-> IF j < i THEN s[j] ELSE s[j + 1]]

\* the first index of s satisfying nothing smaller (Array.prototype.find / indexOf)
FirstPrimaryKey(columns) ==
  LET hits == {i \in DOMAIN columns : columns[i].primaryKey}
  IN IF hits = {} THEN 0 ELSE CHOOSE i \in hits : \A j \in hits : i <= j

columnDef(col) ==
  [name |-> toUpperCase(col.name), type |-> mapTypeToSQLite(col.type),
   notnull |-> col.required, uniq |-> col.unique, pk |-> FALSE, auto |-> FALSE]

primaryKeyDef(col) ==
  [name |-> toUpperCase(col.name), type |-> "INTEGER PRIMARY KEY",
   notnull |-> ~col.auto, uniq |-> FALSE, pk |-> TRUE, auto |-> col.auto]

indexStatements(tableName, columns) ==
  LET idx == SelectSeq(columns, LAMBDA c : c.indexed)
  IN [i \in DOMAIN idx |->
        [Stmt("CREATE INDEX IF NOT EXISTS", toUpperCase(tableName),
              {toUpperCase(idx[i].name)}, << >>, idx[i].unique, UNDEF)
           EXCEPT !.name = << "idx_", tableName, "_", toUpperCase(idx[i].name) >>]]

\* a mutation of sqlCreateTable: the table statement without IF NOT EXISTS
sqlCreateTableUnguarded(tableName, columns) ==
  LET columnDefinitions == [i \in DOMAIN columns |-> columnDef(columns[i])]
      p == FirstPrimaryKey(columns)
      defs == IF p = 0 THEN columnDefinitions
              ELSE << primaryKeyDef(columns[p]) >> \o RemoveAt(columnDefinitions, p)
  IN << Stmt("CREATE TABLE", toUpperCase(tableName), {}, defs, FALSE, UNDEF) >>
     \o indexStatements(tableName, columns)

\* SQL.createTable: CREATE TABLE first, then one CREATE INDEX per indexed column
sqlCreateTable(tableName, columns) ==
  LET columnDefinitions == [i \in DOMAIN columns |-> columnDef(columns[i])]
      p == FirstPrimaryKey(columns)
      defs == IF p = 0 THEN columnDefinitions
              ELSE << primaryKeyDef(columns[p]) >> \o RemoveAt(columnDefinitions, p)
  IN << Stmt("CREATE TABLE IF NOT EXISTS", toUpperCase(tableName), {}, defs,
             FALSE, UNDEF) >>
     \o indexStatements(tableName, columns)

sqlDropTable(table) ==
  Stmt("DROP TABLE IF EXISTS", toUpperCase(table), {}, << >>, FALSE, UNDEF)

\* SQL.insert: throws when values has no key
sqlInsertThrows(values) == DOMAIN values = {}
sqlInsert(tableName, values) ==
  Stmt("INSERT", toUpperCase(tableName),
       {toUpperCase(k) : k \in DOMAIN values}, << >>, FALSE, UNDEF)

sqlDelete(table) ==
  Stmt("DELETE", toUpperCase(table), {}, << >>, FALSE, UNDEF)

\* a mutation of sqlUpdateThrows: the identifier is never required
sqlUpdateNeverThrows(values) == FALSE

\* SQL.update: throws unless values.ID is truthy
sqlUpdateThrows(values) == ~Truthy(Get(values, "ID"))

sqlUpdate(table, values) ==
  Stmt("UPDATE", toUpperCase(table),
       {toUpperCase(k) : k \in {j \in DOMAIN values : toUpperCase(j) # "ID"}},
       << >>, FALSE, UNDEF)

sqlFindById(tableName, id) ==
  Stmt("SELECT BY ID", toUpperCase(tableName), {}, << >>, FALSE, id)

(* ---------------------- lib/sql.js: criteria compiler ----------------- *)

\* Generated text is a sequence of words.  A word is a keyword, operator or
\* bracket of SQL, or a name: a column name or a bind token "@<name>", the
\* name being the sequence of the pieces it is put together from.
Word(kind, parts) == [kind |-> kind, parts |-> parts]
Kw(s) == Word("kw", << s >>)
ColName(name) == Word("col", name)
BindToken(name) == Word("bind", name)

\* toUpperCase on a name given by its pieces
upperText(t) == [i \in DOMAIN t |-> toUpperCase(t[i])]

\* A criteria object is the sequence of its entries, in key order.  The
\* value under a key is a scalar (null included), an object of operator
\* entries, each with its operand, or an array of criteria objects.  Of an
\* operand only its length as an array counts, -1 standing for an operand
\* that is no array.
Entry(key, val) == [key |-> key, val |-> val]
Scalar == [t |-> "scalar", ops |-> << >>, items |-> << >>]
Cond(ops) == [t |-> "object", ops |-> ops, items |-> << >>]
List(items) == [t |-> "array", ops |-> << >>, items |-> items]
Op(op, n) == [op |-> op, n |-> n]

\* what the compiler hands back: the text, or the error thrown
Compiled(err, text) == [err |-> err, text |-> text]

\* the keys beginning with "$", each with what is left without its first
\* character
SlicePairs == {<< "$OR", "OR" >>, << "$AND", "AND" >>, << "$NOR", "NOR" >>}

\* upperKey.startsWith("$")
startsWithDollar(upperKey) ==
  Len(upperKey) > 0 /\ upperKey[1] \in {p[1] : p \in SlicePairs}

\* a mutation of sliceOne: the keyword is AND for every combinator
sliceOneAnd(upperKey) == "AND"

\* upperKey.slice(1).toUpperCase()
sliceOne(upperKey) ==
  toUpperCase((CHOOSE p \in SlicePairs : p[1] = upperKey[1])[2])

\* Array.prototype.join
RECURSIVE join(_, _)
join(texts, sep) ==
  IF texts = << >> THEN << >>
  ELSE IF Len(texts) = 1 THEN texts[1]
  ELSE texts[1] \o << sep >> \o join(Tail(texts), sep)

\* clauses.push, over all keys: the lists of clauses, one after the other
RECURSIVE flatten(_)
flatten(lists) ==
  IF lists = << >> THEN << >> ELSE Head(lists) \o flatten(Tail(lists))

\* the first error among compiled pieces, "none" if there is none
firstError(pieces) ==
  LET bad == {i \in DOMAIN pieces : pieces[i].err # "none"}
  IN IF bad = {} THEN "none"
     ELSE pieces[CHOOSE i \in bad : \A j \in bad : i <= j].err

\* condition[upperOp]: the operand stored under the upper-cased operator
\* name itself; its length, -1 if it is no array, -2 if there is no such key
operandOf(condition, upperOp) ==
  LET hit == {i \in DOMAIN condition.ops : condition.ops[i].op = upperOp}
  IN IF hit = {} THEN -2 ELSE condition.ops[CHOOSE i \in hit : TRUE].n

\* a mutation of inValues: every placeholder carries the index 0
inValuesSameIndex(upperKey, n) ==
  join([i \in 1..n |-> << BindToken(upperKey \o << "_in_", "0" >>) >>], Kw(","))

\* the placeholders of IN, one per element of the operand
inValues(upperKey, n) ==
  join([i \in 1..n |-> << BindToken(upperKey \o << "_in_", ToString(i - 1) >>) >>],
       Kw(","))

\* one pass of the switch over an operator of a column's condition
opClause(upperKey, condition, op) ==
  LET upperOp == toUpperCase(op)
  IN CASE upperOp \in {"=", "!="} ->
            Compiled("none", << ColName(upperKey), Kw(upperOp), BindToken(upperKey) >>)
       [] upperOp \in {">", "<", ">=", "<="} ->
            Compiled("none", << ColName(upperKey), Kw(upperOp),
                                BindToken(upperKey \o << "_", upperOp >>) >>)
       [] upperOp = "LIKE" ->
            Compiled("none", << ColName(upperKey), Kw("LIKE"),
                                BindToken(upperKey \o << "_LIKE" >>) >>)
       [] upperOp = "IN" ->
            LET n == operandOf(condition, upperOp)
            IN IF n < 0 THEN Compiled("TypeError", << >>)
               ELSE Compiled("none", << ColName(upperKey), Kw("IN"), Kw("(") >>
                                     \o inValues(upperKey, n) \o << Kw(")") >>)
       [] upperOp = "BETWEEN" ->
            Compiled("none", << ColName(upperKey), Kw("BETWEEN"),
                                BindToken(upperKey \o << "_BETWEEN_1" >>), Kw("AND"),
                                BindToken(upperKey \o << "_BETWEEN_2" >>) >>)
       [] upperOp \in {"IS NULL", "IS NOT NULL"} ->
            Compiled("none", << ColName(upperKey), Kw(upperOp) >>)
       [] OTHER -> Compiled("Unsupported operator", << >>)

\* buildWhereClause: the clauses of each key in turn, joined with AND
RECURSIVE buildWhereClause(_)
buildWhereClause(criteria) ==
  LET clausesOf(e) ==
        LET upperKey == upperText(e.key)
        IN IF startsWithDollar(upperKey)
           THEN IF e.val.t = "array"
                THEN LET subs == [i \in DOMAIN e.val.items |->
                                    buildWhereClause(e.val.items[i])]
                         subClauses == join([i \in DOMAIN subs |-> subs[i].text],
                                            Kw(sliceOne(upperKey)))
                     IN << Compiled(firstError(subs),
                                    << Kw("(") >> \o subClauses \o << Kw(")") >>) >>
                ELSE << >>
           ELSE IF e.val.t = "object"
           THEN [k \in DOMAIN e.val.ops |-> opClause(upperKey, e.val, e.val.ops[k].op)]
           ELSE IF e.val.t = "array"
           THEN [k \in DOMAIN e.val.items |-> Compiled("Unsupported operator", << >>)]
           ELSE << Compiled("none", << ColName(upperKey), Kw("="), BindToken(upperKey) >>) >>
      clauses == [i \in DOMAIN criteria |-> clausesOf(criteria[i])]
      pushed == flatten(clauses)
      err == firstError(pushed)
  IN IF err # "none" THEN Compiled(err, << >>)
     ELSE Compiled("none", join([i \in DOMAIN pushed |-> pushed[i].text], Kw("AND")))

\* SQL.findMany
sqlFindMany(table, where) ==
  LET whereClause == buildWhereClause(where)
  IN IF whereClause.err # "none" THEN whereClause
     ELSE Compiled("none",
                   << Kw("SELECT * FROM"), Word("table", << toUpperCase(table) >>),
                      Kw("WHERE") >> \o whereClause.text)

(* ------------------- lib/database.js: static helpers ------------------ *)

toSQLiteValue(x) ==
  CASE x.t = "bool" -> Num(x.v)
    [] x.t = "date" -> toISOString(x)
    [] OTHER -> x

\* keys are kept as they are
toSqliteParams(params) == [k \in DOMAIN params |-> toSQLiteValue(params[k])]

\* keys are uppercased (no two keys of the model's objects share an uppercase form)
toSQLiteValues(values) ==
  [K \in {toUpperCase(k) : k \in DOMAIN values} |->
     toSQLiteValue(values[CHOOSE k \in DOMAIN values : toUpperCase(k) = K])]

findColumn(columns, key) ==
  LET hits == {i \in DOMAIN columns :
                 toUpperCase(columns[i].name) = toUpperCase(key)}
  IN IF hits = {} THEN 0 ELSE CHOOSE i \in hits : \A j \in hits : i <= j

\* a mutation of fromSQLiteValue: BOOLEAN columns are not converted back
fromSQLiteValueNoBoolean(x, columns, key) ==
  LET c == findColumn(columns, key)
  IN IF c = 0 THEN x
     ELSE IF columns[c].type = "TIMESTAMP" /\ x # NULL THEN NewDate(x)
     ELSE x

fromSQLiteValue(x, columns, key) ==
  LET c == findColumn(columns, key)
  IN IF c = 0 THEN x
     ELSE IF columns[c].type = "BOOLEAN" THEN V("bool", IF Truthy(x) THEN 1 ELSE 0)
     ELSE IF columns[c].type = "TIMESTAMP" /\ x # NULL THEN NewDate(x)
     ELSE x

\* `values` undefined (no row read) is the empty object here: for-in over
\* undefined runs no iteration, so both give {}
fromSQLiteValues(values, columns) ==
  [k \in DOMAIN values |-> fromSQLiteValue(values[k], columns, k)]

filterValues(columns, values) ==
  LET names == {toUpperCase(columns[i].name) : i \in DOMAIN columns}
      kept == {k \in DOMAIN values : toUpperCase(k) \in names}
  IN [K \in {toUpperCase(k) : k \in kept} |->
        values[CHOOSE k \in kept : toUpperCase(k) = K]]

columnCase(columns, values) ==
  LET columnMap ==
        [K \in {toUpperCase(columns[i].name) : i \in DOMAIN columns} |->
           columns[MaxOf({i \in DOMAIN columns :
                            toUpperCase(columns[i].name) = K})].name]
      kept == {k \in DOMAIN values : toUpperCase(k) \in DOMAIN columnMap}
  IN [n \in {columnMap[toUpperCase(k)] : k \in kept} |->
        values[CHOOSE k \in kept : columnMap[toUpperCase(k)] = n]]

colExists(columns, name) ==
  \E i \in DOMAIN columns : toUpperCase(columns[i].name) = name


(* --------------------------- storage engine --------------------------- *)
\* The storage file: one table.  rows maps each stored row identifier to the
\* row (a function from the table's column names to stored values); seq is
\* the AUTOINCREMENT high-water mark (sqlite_sequence).
NoTable ==
  [exists |-> FALSE, defs |-> << >>, indexes |-> {}, rows |-> << >>, seq |-> 0]

RECURSIVE SortedSeq(_)
SortedSeq(S) ==
  IF S = {} THEN << >>
  ELSE LET m == CHOOSE x \in S : \A y \in S : x <= y
       IN << m >> \o SortedSeq(S \ {m})

colNames(st) == {st.defs[i].name : i \in DOMAIN st.defs}
notNullCols(st) == {st.defs[i].name : i \in {j \in DOMAIN st.defs : st.defs[j].notnull /\ ~st.defs[j].pk}}
uniqueCols(st) == {st.defs[i].name : i \in {j \in DOMAIN st.defs : st.defs[j].uniq}}

\* the result of running a statement: the store after it, the connection's
\* last inserted row identifier after it, the affected-row count, the error
Ran(st, rowid, changes, err) ==
  [store |-> st, rowid |-> rowid, changes |-> changes, err |-> err]

\* what the engine throws for a CREATE statement: a table or an index that
\* is there already and no IF NOT EXISTS, an index on a table that is not
\* there, a unique index over values that repeat
createError(st, stmt) ==
  IF stmt.kind = "CREATE TABLE"
  THEN IF st.exists THEN "table already exists" ELSE "none"
  ELSE IF stmt.kind = "CREATE TABLE IF NOT EXISTS" THEN "none"
  ELSE IF ~st.exists THEN "no such table"
  ELSE IF \E x \in st.indexes : x.cols = stmt.cols
  THEN IF stmt.kind = "CREATE INDEX" THEN "index already exists" ELSE "none"
  ELSE IF stmt.uniq /\ \E c \in stmt.cols : \E i, j \in DOMAIN st.rows :
                         i # j /\ st.rows[i][c] # NULL /\ st.rows[i][c] = st.rows[j][c]
  THEN "UNIQUE constraint failed"
  ELSE "none"

\* CREATE TABLE [IF NOT EXISTS] / CREATE INDEX [IF NOT EXISTS], when the
\* engine does not throw
runCreate(st, stmt) ==
  IF stmt.kind \in {"CREATE TABLE", "CREATE TABLE IF NOT EXISTS"}
  THEN IF st.exists THEN st
       ELSE [exists |-> TRUE, defs |-> stmt.defs, indexes |-> {},
             rows |-> << >>, seq |-> 0]
  ELSE IF \E x \in st.indexes : x.cols = stmt.cols THEN st
  ELSE [st EXCEPT !.indexes = @ \cup {[cols |-> stmt.cols, uniq |-> stmt.uniq]}]

\* statements.forEach(prepare(statement).run()): the store after the
\* statements that ran, the error of the one that threw, and how many
\* statements reached the connection
RECURSIVE runAll(_, _)
runAll(st, stmts) ==
  IF stmts = << >> THEN [store |-> st, err |-> "none", n |-> 0]
  ELSE LET e == createError(st, Head(stmts))
       IN IF e # "none" THEN [store |-> st, err |-> e, n |-> 1]
          ELSE LET r == runAll(runCreate(st, Head(stmts)), Tail(stmts))
               IN [r EXCEPT !.n = @ + 1]

\* whether a row violates a constraint of the table, other rows given
constraintError(st, row, others) ==
  IF \E c \in notNullCols(st) : row[c] = NULL
  THEN "NOT NULL constraint failed"
  ELSE IF \E c \in uniqueCols(st) : \E r \in others :
            row[c] # NULL /\ st.rows[r][c] = row[c]
  THEN "UNIQUE constraint failed"
  ELSE "none"

\* the identifier INSERT gives the new row
newRowid(st, params) ==
  IF Get(params, "ID").t = "int" THEN params["ID"].v
  ELSE Max(st.seq, MaxOf(DOMAIN st.rows)) + 1

\* INSERT INTO t (cols) VALUES (@cols), run with the named parameters
runInsert(st, rowid, stmt, params) ==
  IF ~st.exists THEN Ran(st, rowid, 0, "no such table")
  ELSE
    LET id == newRowid(st, params)
        row == [c \in colNames(st) |->
                  IF c = "ID" THEN Num(id)
                  ELSE IF c \in stmt.cols THEN params[c] ELSE NULL]
        cerr == constraintError(st, row, DOMAIN st.rows)
    IN IF cerr # "none" THEN Ran(st, rowid, 0, cerr)
       ELSE IF id \in DOMAIN st.rows
       THEN Ran(st, rowid, 0, "UNIQUE constraint failed")
       ELSE Ran([st EXCEPT !.rows = [i \in DOMAIN st.rows \cup {id} |->
                                       IF i = id THEN row ELSE st.rows[i]],
                           !.seq = Max(st.seq, id)],
                id, 1, "none")

\* UPDATE t SET cols = :cols WHERE ID = :ID; the connection's last inserted
\* row identifier is left as it was
runUpdate(st, rowid, stmt, params) ==
  IF ~st.exists THEN Ran(st, rowid, 0, "no such table")
  ELSE
    LET hit == {i \in DOMAIN st.rows : Num(i) = Get(params, "ID")}
    IN IF hit = {} THEN Ran(st, rowid, 0, "none")
       ELSE
         LET id == CHOOSE i \in hit : TRUE
             row == [c \in colNames(st) |->
                       IF c \in stmt.cols THEN params[c] ELSE st.rows[id][c]]
             cerr == constraintError(st, row, DOMAIN st.rows \ {id})
         IN IF cerr # "none" THEN Ran(st, rowid, 0, cerr)
            ELSE Ran([st EXCEPT !.rows[id] = row], rowid, 1, "none")

\* DELETE FROM t WHERE ID = @ID
runDelete(st, rowid, params) ==
  IF ~st.exists THEN Ran(st, rowid, 0, "no such table")
  ELSE
    LET hit == {i \in DOMAIN st.rows : Num(i) = Get(params, "ID")}
    IN Ran([st EXCEPT !.rows = [i \in DOMAIN st.rows \ hit |-> st.rows[i]]],
           rowid, Cardinality(hit), "none")

\* DROP TABLE IF EXISTS t
runDrop(st) == NoTable

\* SELECT * FROM t WHERE ID = <id>, .get(): the row, or undefined (here the
\* empty object, see fromSQLiteValues)
getById(st, stmt) ==
  IF stmt.id.t = "int" /\ stmt.id.v \in DOMAIN st.rows
  THEN st.rows[stmt.id.v] ELSE EmptyObj

\* A caller's criteria text: none, or "<col> = :<param>"
NoCriteria == [col |-> "", param |-> ""]
Eq(col, param) == [col |-> col, param |-> param]

matches(row, criteria, params) ==
  criteria = NoCriteria
  \/ row[toUpperCase(criteria.col)] = Get(params, criteria.param)

Take(s, n) == [i \in 1..(IF n < Len(s) THEN n ELSE Len(s)) |-> s[i]]
Drop(s, n) == [i \in 1..(IF n < Len(s) THEN Len(s) - n ELSE 0) |-> s[i + n]]

\* SELECT * FROM t [WHERE criteria] [LIMIT n] [OFFSET m], .all(): rows in
\* row-identifier order
selectAll(st, criteria, params, limit, offset) ==
  LET ids == SortedSeq({i \in DOMAIN st.rows : matches(st.rows[i], criteria, params)})
      rows == [i \in DOMAIN ids |-> st.rows[ids[i]]]
      skipped == IF limit # 0 /\ offset # 0 THEN Drop(rows, offset) ELSE rows
  IN IF limit # 0 THEN Take(skipped, limit) ELSE skipped

\* what prepare() throws for a SELECT: no table, or OFFSET without LIMIT
selectError(st, limit, offset) ==
  IF ~st.exists THEN "no such table"
  ELSE IF limit = 0 /\ offset # 0 THEN "syntax error"
  ELSE "none"


(* ------------------------------- state -------------------------------- *)

VARIABLES
  db,       \* Database.#db: [open, rowid]; open = FALSE is null, rowid is
            \* the connection's last inserted row identifier
  logging,  \* Database.#logging
  store,    \* the storage file behind the connection
  pre,      \* db and store as they were when the last call was made
  call,     \* the last call made: the operation and its arguments
  out,      \* what that call did: error thrown or value returned, the
            \* engine and log events in order, the caller's options after it
  twin,     \* a second adapter with a storage file of its own, set aside
            \* while this one runs (used where two adapters are compared)
  model     \* a Model instance on the adapter: whether it has been
            \* constructed, and the column properties assigned to it

vars == << db, logging, store, pre, call, out, twin, model >>

Closed == [open |-> FALSE, rowid |-> 0]
Opened == [open |-> TRUE, rowid |-> 0]

NoOptions == [limit |-> 0, offset |-> 0]

Call(op, values, id, hook, criteria, params, options, columns) ==
  [op |-> op, values |-> values, id |-> id, hook |-> hook,
   criteria |-> criteria, params |-> params, options |-> options,
   columns |-> columns, now |-> 0]

Call0(op) == Call(op, EmptyObj, UNDEF, "none", NoCriteria, EmptyObj, NoOptions, << >>)

\* an Error: its message, and the operation name the message carries ("" if none)
Err(msg, op) == [msg |-> msg, op |-> op]
NoErr == Err("none", "")

RNone == [k |-> "none", row |-> EmptyObj, rows |-> << >>, n |-> 0]
RBool(b) == [RNone EXCEPT !.k = IF b THEN "true" ELSE "false"]
RRow(r) == [RNone EXCEPT !.k = "row", !.row = r]
RNull == [RNone EXCEPT !.k = "null"]
RList(l) == [RNone EXCEPT !.k = "list", !.rows = l]

Out(err, ret, events, options) ==
  [err |-> err, ret |-> ret, events |-> events, options |-> options]

Ev(ev, what) == [ev |-> ev, what |-> what, stmts |-> << >>, params |-> EmptyObj]

\* a mutation of log: nothing is written
logNothing(method, statement, params) == << >>

\* Database.#log: a record of the method, the statement text (the list of
\* statements it holds) and the parameters, written only while logging
log(method, statement, params) ==
  IF logging
  THEN << [ev |-> "log", what |-> method, stmts |-> statement, params |-> params] >>
  ELSE << >>

\* a mutation of checkConnectedThrows: the check is left out
checkConnectedNeverThrows == FALSE

\* a mutation of checkConnectedThrows: the check is skipped while logging
checkConnectedUnlessLogging == ~db.open /\ ~logging

\* Database.#checkConnected throws: !this.#db
checkConnectedThrows == ~db.open

\* the getter `connected`: !!this.#db
connected == db.open

\* the Error #checkConnected throws
notConnected(operation) == Err("Database not connected during", operation)

\* an adapter set aside: its fields, its file, its last call and outcome
Adapter(d, l, s, c, o) ==
  [db |-> d, logging |-> l, store |-> s, call |-> c, out |-> o]

\* a newly constructed adapter
Fresh ==
  Adapter(Closed, FALSE, NoTable, Call0("new"),
          Out(NoErr, RNone, << >>, NoOptions))

\* no Model instance constructed yet
NoModel == [made |-> FALSE, data |-> EmptyObj]

\* what every call records on entry; a call touches no other adapter
Entered ==
  /\ pre' = [db |-> db, store |-> store]
  /\ twin' = twin
  /\ model' = model

\* fromSQLiteValues then columnCase, as insert, update and the finders do
rehydrate(columns, row) == columnCase(columns, fromSQLiteValues(row, columns))

(* ------------------------------ inputs -------------------------------- *)

Times == 1..MaxTime
Ids == 1..MaxId
Hooks == {"none", "before", "after"}   \* which hook, if any, throws

Obj(id, email, active, created, nick) ==
  LET all == [k \in {"id", "email", "active", "created_at", "nickname"} |->
                CASE k = "id" -> id [] k = "email" -> email
                  [] k = "active" -> active [] k = "created_at" -> created
                  [] OTHER -> nick]
  IN [k \in {j \in DOMAIN all : all[j] # UNDEF} |-> all[k]]

\* what callers insert: every e-mail with either flag; then nothing at all,
\* an identifier of the caller's own, a Date of the caller's own (later than
\* any instant of the clock), and a key that is no column
InsertValues ==
  {Obj(UNDEF, Str(e), a, UNDEF, UNDEF) : e \in 1..MaxEmail, a \in {JTrue, JFalse}}
  \cup {EmptyObj,
        Obj(Num(MaxId), Str(1), JTrue, UNDEF, UNDEF),
        Obj(UNDEF, Str(1), JTrue, Date(MaxTime + 1), UNDEF),
        Obj(UNDEF, Str(MaxEmail), JFalse, Date(MaxTime + 1), UNDEF),
        Obj(UNDEF, Str(1), JFalse, UNDEF, Str(1))}

\* what callers update: by every identifier, a new e-mail or a new flag; then
\* no identifier, the identifier 0, a null flag, and a key that is no column
UpdateValues ==
  {Obj(Num(i), Str(MaxEmail), UNDEF, UNDEF, UNDEF) : i \in Ids}
  \cup {Obj(Num(i), UNDEF, a, UNDEF, UNDEF) : i \in Ids, a \in {JTrue, JFalse}}
  \cup {EmptyObj,
        Obj(UNDEF, Str(1), JTrue, UNDEF, UNDEF),
        Obj(Num(0), UNDEF, JTrue, UNDEF, UNDEF),
        Obj(Num(1), UNDEF, NULL, UNDEF, UNDEF),
        Obj(Num(1), UNDEF, UNDEF, UNDEF, Str(1))}

\* the calls made with a hook that throws (a hook that returns changes nothing)
InsertCalls ==
  (InsertValues \X {"none"})
  \cup ({Obj(UNDEF, Str(e), JTrue, UNDEF, UNDEF) : e \in 1..MaxEmail}
        \X {"before", "after"})

UpdateCalls ==
  (UpdateValues \X {"none"})
  \cup ({Obj(Num(i), UNDEF, JFalse, UNDEF, UNDEF) : i \in Ids}
        \X {"before", "after"})

OptionsSet ==
  {NoOptions, [limit |-> 2, offset |-> 0], [limit |-> 2, offset |-> 1],
   [limit |-> 0, offset |-> 1]}

\* findMany is also called with an explicit limit of 1
LimitOne == [limit |-> 1, offset |-> 0]

(* ------------------------------ actions ------------------------------- *)

Init ==
  /\ db = Closed
  /\ logging = FALSE
  /\ store = NoTable
  /\ pre = [db |-> Closed, store |-> NoTable]
  /\ call = Call0("new")
  /\ out = Out(NoErr, RNone, << >>, NoOptions)
  /\ twin = Fresh
  /\ model = NoModel

\* a mutation of afterOpen: the handle is assigned although the open threw
afterOpenAssignsAlways(handle, openOk) == Opened

\* #db after `this.#db = new Sqlite(...)`: assigned only if the open returns
afterOpen(handle, openOk) == IF openOk THEN Opened ELSE handle

\* connect({filename, cipher, key}): the open succeeds or throws
connect(openOk) ==
  /\ Entered
  /\ call' = Call0("connect")
  /\ db' = afterOpen(db, openOk)
  /\ out' = IF openOk THEN Out(NoErr, RNone, << >>, NoOptions)
            ELSE Out(Err("database.connect: ", "connect"), RNone, << >>, NoOptions)
  /\ UNCHANGED << logging, store >>

\* a mutation of afterDisconnect: the handle is kept
afterDisconnectKeeps(handle) == handle

\* #db after `this.#db = null`
afterDisconnect(handle) == Closed

disconnect ==
  /\ Entered
  /\ call' = Call0("disconnect")
  /\ db' = afterDisconnect(db)
  /\ out' = Out(NoErr, RNone, << >>, NoOptions)
  /\ UNCHANGED << logging, store >>

setLogging(value) ==
  /\ Entered
  /\ call' = Call0("logging")
  /\ logging' = value
  /\ out' = Out(NoErr, RNone, << >>, NoOptions)
  /\ UNCHANGED << db, store >>

createTable(table, columns) ==
  /\ Entered
  /\ call' = [Call0("createTable") EXCEPT !.columns = columns]
  /\ IF checkConnectedThrows
     THEN /\ out' = Out(notConnected("createTable"), RNone, << >>, NoOptions)
          /\ store' = store
     ELSE LET statements == sqlCreateTable(toUpperCase(table), columns)
              results == runAll(store, statements)
              logged == log("createTable",
                            [i \in DOMAIN statements |-> statements[i].kind], EmptyObj)
          IN /\ store' = results.store
             /\ out' = IF results.err # "none"
                       THEN Out(Err(results.err, ""), RNone,
                                logged \o [i \in 1..results.n |->
                                             Ev(IF i = results.n THEN "failed" ELSE "run",
                                                statements[i].kind)],
                                NoOptions)
                       ELSE Out(NoErr, RBool(TRUE),
                                logged \o [i \in DOMAIN statements |->
                                             Ev("run", statements[i].kind)],
                                NoOptions)
  /\ UNCHANGED << db, logging >>

dropTable(table) ==
  /\ Entered
  /\ call' = Call0("dropTable")
  /\ IF checkConnectedThrows
     THEN /\ out' = Out(notConnected("dropTable"), RNone, << >>, NoOptions)
          /\ store' = store
     ELSE LET statement == sqlDropTable(table)
          IN /\ store' = runDrop(store)
             /\ out' = Out(NoErr, RBool(TRUE),
                           log("DROP TABLE", << statement.kind >>, EmptyObj) \o << Ev("run", statement.kind) >>,
                           NoOptions)
  /\ UNCHANGED << db, logging >>


\* the values bound to the INSERT: filtered, coerced, CREATED_AT stamped
insertValues(columns, values, now) ==
  LET newValues == toSQLiteValues(filterValues(columns, values))
  IN IF colExists(columns, "CREATED_AT") /\ ~Truthy(Get(newValues, "CREATED_AT"))
     THEN Put(newValues, "CREATED_AT", toISOString(Date(now)))
     ELSE newValues

\* a mutation of updateValues: CREATED_AT is stamped as well
updateValuesStampsCreated(columns, values, now) ==
  LET newValues == toSQLiteValues(filterValues(columns, values))
  IN Put(Put(newValues, "UPDATED_AT", toISOString(Date(now))),
         "CREATED_AT", toISOString(Date(now)))

\* the values bound to the UPDATE: filtered, coerced, UPDATED_AT stamped
updateValues(columns, values, now) ==
  LET newValues == toSQLiteValues(filterValues(columns, values))
  IN IF colExists(columns, "UPDATED_AT") /\ ~Truthy(Get(newValues, "UPDATED_AT"))
     THEN Put(newValues, "UPDATED_AT", toISOString(Date(now)))
     ELSE newValues

\* the identifier insert and update re-read the row by: results.lastInsertRowid
rereadId(results, newValues) == Num(results.rowid)

\* insert(table, columns, values, options); hook names the hook that throws
insert(table, columns, values, hook, now) ==
  /\ Entered
  /\ call' = [Call0("insert") EXCEPT !.values = values, !.hook = hook,
                                      !.columns = columns, !.now = now]
  /\ UNCHANGED logging
  /\ IF checkConnectedThrows
     THEN /\ out' = Out(notConnected("insert"), RNone, << >>, NoOptions)
          /\ UNCHANGED << db, store >>
     ELSE IF hook = "before"
     THEN /\ out' = Out(Err("beforeInsert threw", ""), RNone, << >>, NoOptions)
          /\ UNCHANGED << db, store >>
     ELSE
       LET newValues == insertValues(columns, values, now)
       IN IF sqlInsertThrows(newValues)
          THEN /\ out' = Out(Err("No valid columns to insert.", ""), RNone, << >>, NoOptions)
               /\ UNCHANGED << db, store >>
          ELSE
            LET statement == sqlInsert(table, newValues)
                results == runInsert(store, db.rowid, statement, newValues)
                insertedRow == rehydrate(columns,
                                 getById(results.store,
                                         sqlFindById(table, rereadId(results, newValues))))
            IN /\ store.exists => newRowid(store, newValues) <= MaxId
               /\ store' = results.store
               /\ db' = [db EXCEPT !.rowid = results.rowid]
               /\ out' =
                    IF results.err # "none"
                    THEN Out(Err(results.err, ""), RNone,
                             log("INSERT", << statement.kind >>, newValues) \o << Ev("failed", statement.kind) >>, NoOptions)
                    ELSE IF results.changes # 1
                    THEN Out(Err("Insert failed", ""), RNone,
                             log("INSERT", << statement.kind >>, newValues) \o << Ev("run", statement.kind) >>, NoOptions)
                    ELSE IF hook = "after"
                    THEN Out(Err("afterInsert threw", ""), RNone,
                             log("INSERT", << statement.kind >>, newValues) \o << Ev("run", statement.kind),
                                                 Ev("get", "SELECT BY ID") >>, NoOptions)
                    ELSE Out(NoErr, RRow(insertedRow),
                             log("INSERT", << statement.kind >>, newValues) \o << Ev("run", statement.kind),
                                                 Ev("get", "SELECT BY ID") >>, NoOptions)

\* update(table, columns, values, options); hook names the hook that throws
update(table, columns, values, hook, now) ==
  /\ Entered
  /\ call' = [Call0("update") EXCEPT !.values = values, !.hook = hook,
                                      !.columns = columns, !.now = now]
  /\ UNCHANGED logging
  /\ IF checkConnectedThrows
     THEN /\ out' = Out(notConnected("update"), RNone, << >>, NoOptions)
          /\ UNCHANGED << db, store >>
     ELSE IF hook = "before"
     THEN /\ out' = Out(Err("beforeUpdate threw", ""), RNone, << >>, NoOptions)
          /\ UNCHANGED << db, store >>
     ELSE
       LET newValues == updateValues(columns, values, now)
       IN IF sqlUpdateThrows(newValues)
          THEN /\ out' = Out(Err("The 'id' property must be provided and not be null.", ""),
                             RNone, << >>, NoOptions)
               /\ UNCHANGED << db, store >>
          ELSE
            LET statement == sqlUpdate(table, newValues)
                results == runUpdate(store, db.rowid, statement, newValues)
                updatedRow == rehydrate(columns,
                                getById(results.store,
                                         sqlFindById(table, rereadId(results, newValues))))
            IN /\ store' = results.store
               /\ db' = [db EXCEPT !.rowid = results.rowid]
               /\ out' =
                    IF results.err # "none"
                    THEN Out(Err(results.err, ""), RNone,
                             log("update", << statement.kind >>, newValues) \o << Ev("failed", statement.kind) >>, NoOptions)
                    ELSE IF results.changes # 1
                    THEN Out(Err("Update failed", ""), RNone,
                             log("update", << statement.kind >>, newValues) \o << Ev("run", statement.kind) >>, NoOptions)
                    ELSE IF hook = "after"
                    THEN Out(Err("afterUpdate threw", ""), RNone,
                             log("update", << statement.kind >>, newValues) \o << Ev("run", statement.kind),
                                                 Ev("get", "SELECT BY ID") >>, NoOptions)
                    ELSE Out(NoErr, RRow(updatedRow),
                             log("update", << statement.kind >>, newValues) \o << Ev("run", statement.kind),
                                                 Ev("get", "SELECT BY ID") >>, NoOptions)

\* a mutation of deleted: true whenever the statement ran
deletedAlways(results) == TRUE

\* delete's result: exactly one row affected
deleted(results) == results.changes = 1

\* delete(table, id, options); hook names the hook that throws
delete(table, id, hook) ==
  /\ Entered
  /\ call' = [Call0("delete") EXCEPT !.id = id, !.hook = hook]
  /\ UNCHANGED logging
  /\ IF checkConnectedThrows
     THEN /\ out' = Out(notConnected("delete"), RNone, << >>, NoOptions)
          /\ UNCHANGED << db, store >>
     ELSE IF hook = "before"
     THEN /\ out' = Out(Err("beforeDelete threw", ""), RNone, << >>, NoOptions)
          /\ UNCHANGED << db, store >>
     ELSE
       LET statement == sqlDelete(table)
           params == [k \in {"ID"} |-> id]
           results == runDelete(store, db.rowid, params)
           ok == deleted(results)
       IN /\ store' = results.store
          /\ db' = db
          /\ out' =
               IF results.err # "none"
               THEN Out(Err(results.err, ""), RNone,
                        log("DELETE", << statement.kind >>, params) \o << Ev("failed", statement.kind) >>, NoOptions)
               ELSE IF hook = "after"
               THEN Out(Err("afterDelete threw", ""), RNone,
                        log("DELETE", << statement.kind >>, params) \o << Ev("run", statement.kind) >>, NoOptions)
               ELSE Out(NoErr, RBool(ok),
                        log("DELETE", << statement.kind >>, params) \o << Ev("run", statement.kind) >>, NoOptions)


\* the operation name findMany hands to #checkConnected, whichever finder
\* the caller invoked
findManyOperation(operation) == "findMany"

\* findMany(table, columns, criteria, params, options), entered through the
\* finder `operation`; options are the caller's options as findMany gets them
findManyOut(operation, table, columns, criteria, params, options) ==
  IF checkConnectedThrows
  THEN Out(notConnected(findManyOperation(operation)), RNone, << >>, options)
  ELSE
    LET perr == selectError(store, options.limit, options.offset)
        results == selectAll(store, criteria, toSqliteParams(params),
                             options.limit, options.offset)
        list == [i \in DOMAIN results |-> rehydrate(columns, results[i])]
    IN IF perr # "none"
       THEN Out(Err(perr, ""), RNone,
                log("FINDMANY", << "SELECT" >>, params) \o << Ev("failed", "SELECT") >>, options)
       ELSE Out(NoErr, RList(list),
                log("FINDMANY", << "SELECT" >>, params) \o << Ev("all", "SELECT") >>, options)

\* a mutation of findOneLimit: the caller's limit is left as it is
findOneLimitKeeps(options) == options

\* findOne: options.limit = 1
findOneLimit(options) == [options EXCEPT !.limit = 1]

\* findOne: sets options.limit, calls findMany, takes the first row or null
findOneOut(operation, table, columns, criteria, params, options) ==
  LET o == findManyOut(operation, table, columns, criteria, params,
                       findOneLimit(options))
  IN IF o.err # NoErr THEN o
     ELSE [o EXCEPT !.ret = IF Len(o.ret.rows) > 0 THEN RRow(o.ret.rows[1])
                            ELSE RNull]

\* findByColumn: findOne with "<name> = :<name>" and {name: value}
findByColumnOut(operation, table, columns, name, value, options) ==
  findOneOut(operation, table, columns, Eq(name, name),
             [k \in {name} |-> value], options)

findMany(table, columns, criteria, params, options) ==
  /\ Entered
  /\ call' = [Call0("findMany") EXCEPT !.criteria = criteria, !.params = params,
                                        !.options = options, !.columns = columns]
  /\ out' = findManyOut("findMany", table, columns, criteria, params, options)
  /\ UNCHANGED << db, logging, store >>

findOne(table, columns, criteria, params, options) ==
  /\ Entered
  /\ call' = [Call0("findOne") EXCEPT !.criteria = criteria, !.params = params,
                                       !.options = options, !.columns = columns]
  /\ out' = findOneOut("findOne", table, columns, criteria, params, options)
  /\ UNCHANGED << db, logging, store >>

findByColumn(table, columns, name, value, options) ==
  /\ Entered
  /\ call' = [Call0("findByColumn") EXCEPT !.criteria = Eq(name, name),
                                            !.params = [k \in {name} |-> value],
                                            !.options = options, !.columns = columns]
  /\ out' = findByColumnOut("findByColumn", table, columns, name, value, options)
  /\ UNCHANGED << db, logging, store >>

findById(table, columns, id, options) ==
  /\ Entered
  /\ call' = [Call0("findById") EXCEPT !.id = id, !.options = options,
                                        !.columns = columns]
  /\ out' = findByColumnOut("findById", table, columns, "id", id, options)
  /\ UNCHANGED << db, logging, store >>

\* execute(statement, params) with a DELETE statement: prepare() runs, then
\* the argument this.toSqliteParams(params) is evaluated; toSqliteParams is a
\* static method, so on the instance it is undefined and the call throws
execute(statement) ==
  /\ Entered
  /\ call' = Call0("execute")
  /\ out' =
       IF checkConnectedThrows
       THEN Out(notConnected("execute"), RNone, << >>, NoOptions)
       ELSE IF ~store.exists
       THEN Out(Err("no such table", ""), RNone,
                log("EXECUTE", << statement >>, EmptyObj) \o << Ev("failed", statement) >>, NoOptions)
       ELSE Out(Err("this.toSqliteParams is not a function", ""), RNone,
                log("EXECUTE", << statement >>, EmptyObj) \o << Ev("prepare", statement) >>, NoOptions)
  /\ UNCHANGED << db, logging, store >>

\* query(statement, params, options, columns) with SELECT * FROM USERS
query(statement, options, columns) ==
  /\ Entered
  /\ call' = [Call0("query") EXCEPT !.options = options, !.columns = columns]
  /\ out' =
       IF checkConnectedThrows
       THEN Out(notConnected("query"), RNone, << >>, options)
       ELSE
         LET perr == selectError(store, options.limit, options.offset)
             results == selectAll(store, NoCriteria, EmptyObj,
                                  options.limit, options.offset)
         IN IF perr # "none"
            THEN Out(Err(perr, ""), RNone,
                     log("QUERY", << statement >>, EmptyObj) \o << Ev("failed", statement) >>, options)
            ELSE Out(NoErr,
                     RList([i \in DOMAIN results |-> rehydrate(columns, results[i])]),
                     log("QUERY", << statement >>, EmptyObj) \o << Ev("all", statement) >>, options)
  /\ UNCHANGED << db, logging, store >>

Next ==
  \/ \E openOk \in BOOLEAN : connect(openOk)
  \/ disconnect
  \/ createTable("users", userColumns)
  \/ dropTable("users")
  \/ \E c \in InsertCalls, now \in Times :
       insert("users", userColumns, c[1], c[2], now)
  \/ \E c \in UpdateCalls, now \in Times :
       update("users", userColumns, c[1], c[2], now)
  \/ \E id \in Ids, hook \in Hooks : delete("users", Num(id), hook)
  \/ \E id \in Ids : findById("users", userColumns, Num(id), NoOptions)
  \/ \E e \in 1..MaxEmail :
       findByColumn("users", userColumns, "email", Str(e), NoOptions)
  \/ \E options \in OptionsSet :
       findOne("users", userColumns, Eq("active", "active"),
               [k \in {"active"} |-> JTrue], options)
  \/ \E options \in OptionsSet \cup {LimitOne} :
       findMany("users", userColumns, NoCriteria, EmptyObj, options)
  \/ execute("DELETE FROM USERS")
  \/ \E columns \in {<< >>, userColumns} :
       query("SELECT * FROM USERS", NoOptions, columns)

Spec == Init /\ [][Next]_vars

(* ---------------------- lib/model.js: Model ---------------------------- *)

\* A Model instance for the users table sits on the adapter.  Its methods
\* call the adapter's methods of the same name and assign what comes back to
\* the instance's properties.

\* the declared column names of a column list
Declared(columns) == {columns[i].name : i \in DOMAIN columns}

\* checkDB(db, table, method): the adapter is defined; when it is not
\* connected `throw new error(...)` names no constructor, a ReferenceError
checkDBThrows == ~connected
checkDBError(method) == Err("error is not defined", "")

\* Model.setData: throws unless it is passed an object
setDataThrows(ret) == ret.k # "row"
setDataError == Err("setData must be passed a valid object", "setData")

\* Model.setData: every property of data is assigned to the instance
setData(instance, data) ==
  [k \in DOMAIN instance \cup DOMAIN data |->
     IF k \in DOMAIN data THEN data[k] ELSE instance[k]]

\* Model.getData: the properties of the instance that are columns
getData(columns, instance) ==
  [k \in DOMAIN instance \cap Declared(columns) |-> instance[k]]

\* what a method of the instance records on entry
ModelEntered ==
  /\ model.made
  /\ pre' = [db |-> db, store |-> store]
  /\ twin' = twin
  /\ UNCHANGED << db, logging, store >>

\* the outcome of a finder of the adapter handed to setData, and returned
assigned(o) ==
  IF o.err # NoErr THEN o
  ELSE IF setDataThrows(o.ret) THEN [o EXCEPT !.err = setDataError, !.ret = RNone]
  ELSE o
assignedData(o) ==
  IF o.err = NoErr /\ ~setDataThrows(o.ret)
  THEN setData(model.data, o.ret.row) ELSE model.data

\* new Model(db, table, columns)
ModelNew ==
  /\ ~model.made
  /\ pre' = [db |-> db, store |-> store]
  /\ twin' = twin
  /\ call' = Call0("Model")
  /\ IF checkDBThrows
     THEN /\ out' = Out(checkDBError("constructor"), RNone, << >>, NoOptions)
          /\ model' = model
     ELSE /\ out' = Out(NoErr, RNone, << >>, NoOptions)
          /\ model' = [made |-> TRUE, data |-> EmptyObj]
  /\ UNCHANGED << db, logging, store >>

\* Model.findById(id): the adapter's findById, then setData on what it gave
ModelFindById(id) ==
  /\ ModelEntered
  /\ call' = [Call0("Model.findById") EXCEPT !.id = id, !.columns = userColumns]
  /\ LET o == findByColumnOut("findById", "users", userColumns, "id", id, NoOptions)
     IN IF checkDBThrows
        THEN /\ out' = Out(checkDBError("findByIdd"), RNone, << >>, NoOptions)
             /\ model' = model
        ELSE /\ out' = assigned(o)
             /\ model' = [model EXCEPT !.data = assignedData(o)]

\* Model.findOne(criteria, params, options)
ModelFindOne(criteria, params, options) ==
  /\ ModelEntered
  /\ call' = [Call0("Model.findOne") EXCEPT !.criteria = criteria, !.params = params,
                                             !.options = options,
                                             !.columns = userColumns]
  /\ LET o == findOneOut("findOne", "users", userColumns, criteria, params, options)
     IN IF checkDBThrows
        THEN /\ out' = Out(checkDBError("findOne"), RNone, << >>, options)
             /\ model' = model
        ELSE /\ out' = assigned(o)
             /\ model' = [model EXCEPT !.data = assignedData(o)]

\* Model.findByColumn(name, value): setData only when a row came back
ModelFindByColumn(name, value) ==
  /\ ModelEntered
  /\ call' = [Call0("Model.findByColumn") EXCEPT !.params = [k \in {name} |-> value],
                                                  !.columns = userColumns]
  /\ LET o == findByColumnOut("findByColumn", "users", userColumns, name, value,
                              NoOptions)
     IN IF checkDBThrows
        THEN /\ out' = Out(checkDBError("findByColumn"), RNone, << >>, NoOptions)
             /\ model' = model
        ELSE /\ out' = o
             /\ model' = [model EXCEPT !.data =
                            IF o.err = NoErr /\ o.ret.k = "row"
                            THEN setData(model.data, o.ret.row) ELSE model.data]

\* the adapter is connected, the table made and rows inserted by the
\* adapter's own methods; the instance is then constructed and looks rows up
ModelNext ==
  \/ \E openOk \in BOOLEAN : connect(openOk)
  \/ disconnect
  \/ createTable("users", userColumns)
  \/ \E e \in 1..MaxEmail, a \in {JTrue, JFalse}, now \in Times :
       insert("users", userColumns, Obj(UNDEF, Str(e), a, UNDEF, UNDEF), "none", now)
  \/ \E id \in Ids : delete("users", Num(id), "none")
  \/ ModelNew
  \/ \E id \in Ids : ModelFindById(Num(id))
  \/ \E options \in {NoOptions, [limit |-> 2, offset |-> 1]} :
       ModelFindOne(Eq("active", "active"), [k \in {"active"} |-> JTrue], options)
  \/ \E e \in 1..MaxEmail : ModelFindByColumn("email", Str(e))

SpecModel == Init /\ [][ModelNext]_vars

(* --------------------- two adapters, side by side --------------------- *)

\* Two adapters, each with a storage file of its own, are driven through the
\* same sequence of calls: the first with logging enabled, the second with
\* it disabled.  The first makes a call and is set aside; the second makes
\* the same call, with the same arguments, clock and answer of the engine's
\* open, and is set aside in turn.

\* the first adapter enables logging before anything else
TwinStart ==
  /\ call.op = "new"
  /\ setLogging(TRUE)

\* the logging adapter makes any call
TwinLead ==
  /\ logging
  /\ call.op \in {"logging", "sync"}
  /\ Next

\* the logging adapter is set aside, the silent one is taken up
TwinHandOver ==
  /\ logging
  /\ call.op \notin {"new", "logging", "sync"}
  /\ twin' = Adapter(db, logging, store, call, out)
  /\ db' = twin.db
  /\ logging' = twin.logging
  /\ store' = twin.store
  /\ pre' = [db |-> twin.db, store |-> twin.store]
  /\ call' = Call0("replay")
  /\ out' = twin.out
  /\ model' = model

\* the silent adapter makes the call the logging one made
TwinFollow ==
  /\ ~logging
  /\ call.op = "replay"
  /\ call' = twin.call
  /\ Next
  /\ twin.call.op = "connect" => (out'.err = NoErr) = (twin.out.err = NoErr)

\* the silent adapter is set aside, the logging one is taken up again
TwinHandBack ==
  /\ ~logging
  /\ call.op \notin {"new", "replay"}
  /\ twin' = Adapter(db, logging, store, Call0("sync"),
                     Out(NoErr, RNone, << >>, NoOptions))
  /\ db' = twin.db
  /\ logging' = twin.logging
  /\ store' = twin.store
  /\ pre' = [db |-> twin.db, store |-> twin.store]
  /\ call' = Call0("sync")
  /\ out' = Out(NoErr, RNone, << >>, NoOptions)
  /\ model' = model

TwinNext ==
  \/ TwinStart
  \/ TwinLead
  \/ TwinHandOver
  \/ TwinFollow
  \/ TwinHandBack

SpecTwin == Init /\ [][TwinNext]_vars



(* ----------------- the synthesizer, called on its own ----------------- *)

\* The functions of lib/sql.js are pure, and so is the adapter's static
\* fromSQLiteValues: each is called here on inputs drawn from small sets,
\* `call` holding the call and `out` what it generated.

TextCall(o, t, c, v, w, i) ==
  [op |-> o, table |-> t, columns |-> c, values |-> v, where |-> w, id |-> i]

\* what a call generated: the error thrown, the statements or words of the
\* text, and the names (table, column, index names and bind tokens) in it
TextOut(err, text, names) == [err |-> err, text |-> text, names |-> names]

\* the names in a statement
namesOfStatement(stmt) ==
  {<< stmt.table >>} \cup {<< c >> : c \in stmt.cols}
  \cup {<< stmt.defs[i].name >> : i \in DOMAIN stmt.defs}
  \cup (IF stmt.name = << >> THEN {} ELSE {stmt.name})

\* the names in a sequence of words
namesOfWords(text) ==
  {text[i].parts : i \in {j \in DOMAIN text : text[j].kind # "kw"}}

\* a call of the synthesizer touches no adapter and no stored data
NoAdapter == UNCHANGED << db, logging, store, pre, twin, model >>

TableNames == {"users", "Users", "USERS"}

\* column lists: the users schema, and one with names in other casings
mixedColumns ==
  << primaryInteger("Id"), string("Email", TRUE, TRUE, TRUE), boolean("ACTIVE", TRUE) >>

\* column lists of up to MaxColumns columns with distinct names and at most
\* one primary key, at any position: an auto and a plain primary key, an
\* indexed primary key, unique and plain indexed columns, a plain column
ColumnPool ==
  {primaryInteger("id"),
   column("id", "INTEGER", FALSE, FALSE, FALSE, TRUE, FALSE),
   column("Id", "STRING", TRUE, TRUE, TRUE, TRUE, FALSE),
   string("email", TRUE, TRUE, TRUE),
   string("nickname", FALSE, TRUE, FALSE),
   boolean("active", TRUE)}
ColumnLists ==
  {l \in UNION {[1..n -> ColumnPool] : n \in 0..MaxColumns} :
     /\ \A i, j \in DOMAIN l : i # j => toUpperCase(l[i].name) # toUpperCase(l[j].name)
     /\ Cardinality({i \in DOMAIN l : l[i].primaryKey}) <= 1}

\* values as SQL.insert and SQL.update get them: keys in any casing
SqlValues ==
  {EmptyObj,
   [k \in {"ID", "EMAIL"} |-> Num(1)],
   [k \in {"id", "email"} |-> Num(1)],
   [k \in {"Id", "Email", "ACTIVE"} |-> Num(1)],
   [k \in {"ID", "active"} |-> Num(1)],
   [k \in {"ID"} |-> Num(0)],
   [k \in {"ID"} |-> Num(1)],
   [k \in {"EMAIL"} |-> Num(1)]}

\* criteria: column keys in several casings; every operator, with operands
\* that are arrays of 0 to MaxList elements or no array
ColKeys == {<< "a" >>, << "A" >>, << "b" >>, << "a", "_like" >>}
OpNames ==
  {"=", "!=", ">", "<=", "like", "LIKE", "in", "IN", "between", "BETWEEN",
   "is null", "is not null", "~"}
OpInputs ==
  {Op(o, -1) : o \in OpNames}
  \cup {Op(o, n) : o \in {"in", "IN", "between"}, n \in 0..MaxList}
Leaves ==
  {<< Entry(k, Scalar) >> : k \in ColKeys}
  \cup {<< Entry(k, Cond(<< o >>)) >> : k \in ColKeys, o \in OpInputs}
SomeLeaves ==
  {<< Entry(<< "a" >>, Scalar) >>, << Entry(<< "b" >>, Scalar) >>,
   << Entry(<< "A" >>, Cond(<< Op("like", -1) >>)) >>, << >>}
Lists == {<< >>} \cup {<< x >> : x \in SomeLeaves}
         \cup {<< x, y >> : x, y \in SomeLeaves}
CombinatorKeys == {<< "$or" >>, << "$OR" >>, << "$Or" >>, << "$and" >>, << "$nor" >>}
Combinators ==
  {<< Entry(k, List(l)) >> : k \in CombinatorKeys, l \in Lists}
Nested ==
  {<< Entry(k1, List(<< x, << Entry(k2, List(<< y, z >>)) >> >>)) >> :
     k1, k2 \in {<< "$or" >>, << "$and" >>},
     x, y, z \in {<< Entry(<< "a" >>, Scalar) >>, << Entry(<< "b" >>, Scalar) >>}}
Siblings ==
  {x \o y : x, y \in SomeLeaves \cup {<< Entry(<< "$or" >>, List(<< << Entry(<< "a" >>, Scalar) >>,
                                                                   << Entry(<< "b" >>, Scalar) >> >>)) >>}}
  \cup {<< Entry(<< "a" >>, Cond(<< Op(">", -1), Op("<=", -1) >>)) >>,
        << Entry(<< "a" >>, Cond(<< Op("in", 2), Op("IN", 1) >>)) >>,
        << Entry(<< "a" >>, Cond(<< Op("=", -1), Op("!=", -1) >>)) >>,
        << Entry(<< "$or" >>, Scalar) >>,
        << Entry(<< "$or" >>, Scalar), Entry(<< "a" >>, Scalar) >>,
        << Entry(<< "a" >>, List(<< << >> >>)) >>,
        << Entry(<< "a" >>, List(<< >>)) >>}
CriteriaInputs == Leaves \cup Combinators \cup Nested \cup Siblings

callBuildWhereClause(criteria) ==
  LET r == buildWhereClause(criteria)
  IN /\ call' = TextCall("buildWhereClause", "", << >>, EmptyObj, criteria, UNDEF)
     /\ out' = TextOut(IF r.err = "none" THEN NoErr ELSE Err(r.err, ""),
                       r.text, namesOfWords(r.text))
     /\ NoAdapter

callFindMany(table, where) ==
  LET r == sqlFindMany(table, where)
  IN /\ call' = TextCall("findMany", table, << >>, EmptyObj, where, UNDEF)
     /\ out' = TextOut(IF r.err = "none" THEN NoErr ELSE Err(r.err, ""),
                       r.text, namesOfWords(r.text))
     /\ NoAdapter

\* the outcome of a function that hands back statements
Statements(stmts) ==
  TextOut(NoErr, stmts, UNION {namesOfStatement(stmts[i]) : i \in DOMAIN stmts})

callCreateTable(tableName, columns) ==
  /\ call' = TextCall("createTable", tableName, columns, EmptyObj, << >>, UNDEF)
  /\ out' = Statements(sqlCreateTable(tableName, columns))
  /\ NoAdapter

callDropTable(table) ==
  /\ call' = TextCall("dropTable", table, << >>, EmptyObj, << >>, UNDEF)
  /\ out' = Statements(<< sqlDropTable(table) >>)
  /\ NoAdapter

callInsert(tableName, values) ==
  /\ call' = TextCall("insert", tableName, << >>, values, << >>, UNDEF)
  /\ out' = IF sqlInsertThrows(values)
            THEN TextOut(Err("No valid columns to insert.", ""), << >>, {})
            ELSE Statements(<< sqlInsert(tableName, values) >>)
  /\ NoAdapter

callDelete(table) ==
  /\ call' = TextCall("delete", table, << >>, EmptyObj, << >>, UNDEF)
  /\ out' = Statements(<< sqlDelete(table) >>)
  /\ NoAdapter

callUpdate(table, values) ==
  /\ call' = TextCall("update", table, << >>, values, << >>, UNDEF)
  /\ out' = IF sqlUpdateThrows(values)
            THEN TextOut(Err("The 'id' property must be provided and not be null.", ""),
                         << >>, {})
            ELSE Statements(<< sqlUpdate(table, values) >>)
  /\ NoAdapter

callFindById(tableName, id) ==
  /\ call' = TextCall("findById", tableName, << >>, EmptyObj, << >>, id)
  /\ out' = Statements(<< sqlFindById(tableName, id) >>)
  /\ NoAdapter

\* Database.fromSQLiteValues, a static function, called on a row as the
\* engine hands it over
flagColumns ==
  << primaryInteger("id"), boolean("active", FALSE), timestamp("updated_at", FALSE) >>
StoredRows ==
  {[k \in {"ID", "ACTIVE", "UPDATED_AT"} |->
      CASE k = "ID" -> Num(1) [] k = "ACTIVE" -> a [] OTHER -> u] :
     a \in {NULL, Num(0), Num(1)},
     u \in {NULL} \cup {toISOString(Date(t)) : t \in Times}}

callFromSQLiteValues(values, columns) ==
  /\ call' = TextCall("fromSQLiteValues", "", columns, values, << >>, UNDEF)
  /\ out' = TextOut(NoErr, << >>, {}) @@ [row |-> fromSQLiteValues(values, columns)]
  /\ NoAdapter

TextNext ==
  \/ \E criteria \in CriteriaInputs : callBuildWhereClause(criteria)
  \/ \E table \in TableNames, where \in SomeLeaves \cup Nested : callFindMany(table, where)
  \/ \E tableName \in TableNames, columns \in {userColumns, mixedColumns} \cup ColumnLists :
       callCreateTable(tableName, columns)
  \/ \E table \in TableNames : callDropTable(table)
  \/ \E tableName \in TableNames, values \in SqlValues : callInsert(tableName, values)
  \/ \E table \in TableNames : callDelete(table)
  \/ \E table \in TableNames, values \in SqlValues : callUpdate(table, values)
  \/ \E tableName \in TableNames, id \in 0..MaxId : callFindById(tableName, Num(id))
  \/ \E values \in StoredRows : callFromSQLiteValues(values, flagColumns)

\* before any call: no adapter is involved, nothing has been generated
InitText ==
  /\ db = Closed
  /\ logging = FALSE
  /\ store = NoTable
  /\ pre = [db |-> Closed, store |-> NoTable]
  /\ call = TextCall("none", "", << >>, EmptyObj, << >>, UNDEF)
  /\ out = TextOut(NoErr, << >>, {})
  /\ twin = Fresh
  /\ model = NoModel

SpecText == InitText /\ [][TextNext]_vars

(* ------------------------------- claims ------------------------------- *)

\* every operation other than connect and disconnect
DataOps ==
  {"createTable", "dropTable", "insert", "update", "delete", "findById",
   "findByColumn", "findOne", "findMany", "execute", "query"}

NotConnectedMsg == "Database not connected during"
MissingIdMsg == "The 'id' property must be provided and not be null."

\* the events of a call in which a statement reached the connection
Executed(events) == {i \in DOMAIN events : events[i].ev # "log"}

\* the stored rows holding an e-mail
RowsWithEmail(st, email) ==
  {r \in DOMAIN st.rows : st.rows[r]["EMAIL"] = email}

C2_ErrorNamesCalledOperation ==
  out.err.msg = NotConnectedMsg => out.err.op = call.op

\* C3: connect on a Disconnected adapter: if the open succeeds the adapter is
\* Connected and `connected` reads true; if the open throws, connect throws
\* the connect error and the adapter stays Disconnected.
C3_ConnectOpensOrStaysClosed ==
  (~pre.db.open /\ call.op = "connect") =>
    /\ out.err = NoErr => connected
    /\ out.err # NoErr =>
         (out.err = Err("database.connect: ", "connect") /\ ~connected)
    /\ store = pre.store

\* C3 witness: a connect that threw on an adapter which had been connected
\* and disconnected before (a table is stored); it is still Disconnected.
C3_Witness ==
  /\ ~pre.db.open
  /\ call.op = "connect"
  /\ out.err # NoErr
  /\ ~connected
  /\ store.exists

\* C4: disconnect never throws and leaves the adapter Disconnected from
\* either state; and a Disconnected adapter becomes Connected only by a
\* connect call that succeeds.
C4_DisconnectIsFinalUntilConnect ==
  /\ call.op = "disconnect" => (out.err = NoErr /\ ~connected)
  /\ (~pre.db.open /\ connected) => (call.op = "connect" /\ out.err = NoErr)

\* C4 witness: a disconnect of an adapter that was Connected, with rows
\* stored through its connection.
C4_Witness ==
  /\ call.op = "disconnect"
  /\ pre.db.open
  /\ ~connected
  /\ Cardinality(DOMAIN store.rows) = 2

\* C5: after a successful insert the returned row carries every supplied
\* value of a known column, the stamped CREATED_AT when none was supplied,
\* and the identifier of a row stored by this call; and findById with that
\* identifier, called next, returns that same row.
C5_InsertThenFindById ==
  (call.op = "insert" /\ out.err = NoErr) =>
    LET row == out.ret.row
        found == findByColumnOut("findById", "users", call.columns, "id",
                                 Get(row, "id"), NoOptions)
    IN /\ out.ret.k = "row"
       /\ DOMAIN row = Declared(call.columns)
       /\ \A k \in DOMAIN call.values \cap Declared(call.columns) :
            row[k] = call.values[k]
       /\ "created_at" \notin DOMAIN call.values =>
            row["created_at"] = Date(call.now)
       /\ row["id"].t = "int"
       /\ row["id"].v \in DOMAIN store.rows \ DOMAIN pre.store.rows
       /\ found.err = NoErr
       /\ found.ret = RRow(row)

\* C5 witness: an insert of a second row, with a true flag and no CREATED_AT
\* supplied, has returned.
C5_Witness ==
  /\ call.op = "insert"
  /\ out.ret.k = "row"
  /\ Get(call.values, "active") = JTrue
  /\ "created_at" \notin DOMAIN call.values
  /\ Cardinality(DOMAIN store.rows) = 2

\* C6: a successful update returns the row whose identifier is the one
\* supplied in values, with that row's stored values after the update.
C6_UpdateReturnsSuppliedRow ==
  (call.op = "update" /\ out.err = NoErr) =>
    /\ Get(out.ret.row, "id") = call.values["id"]
    /\ out.ret.row =
         rehydrate(call.columns,
                   getById(store, sqlFindById("users", call.values["id"])))

\* C7: update with values that hold no identifier throws, runs no statement
\* and leaves the store as it was; on a Connected adapter whose beforeUpdate
\* hook returns, the error is the missing-identifier error.
C7_UpdateWithoutIdFails ==
  (call.op = "update" /\ "id" \notin DOMAIN call.values) =>
    /\ out.err # NoErr
    /\ out.ret = RNone
    /\ Executed(out.events) = {}
    /\ store = pre.store
    /\ (pre.db.open /\ call.hook # "before") => out.err.msg = MissingIdMsg

\* C7 witness: an update without identifier, with other fields, has failed
\* with the missing-identifier error while rows are stored.
C7_Witness ==
  /\ call.op = "update"
  /\ "id" \notin DOMAIN call.values
  /\ DOMAIN call.values # {}
  /\ out.err.msg = MissingIdMsg
  /\ DOMAIN store.rows # {}

\* C8: a delete that returns, returns true exactly when a row with that
\* identifier was stored just before the call; that row is gone after it and
\* every other row is kept; the same delete made again would return false;
\* and with the adapter Connected, the table there and no hook throwing,
\* delete does not throw, row or no row.
C8_DeleteReturnsExistence ==
  call.op = "delete" =>
    /\ out.err = NoErr =>
         /\ out.ret = RBool(call.id.v \in DOMAIN pre.store.rows)
         /\ DOMAIN store.rows = DOMAIN pre.store.rows \ {call.id.v}
         /\ \A r \in DOMAIN store.rows : store.rows[r] = pre.store.rows[r]
         /\ ~deleted(runDelete(store, db.rowid, [k \in {"ID"} |-> call.id]))
    /\ (pre.db.open /\ pre.store.exists /\ call.hook = "none") => out.err = NoErr

\* C8 witness: a delete returned true and removed one of two stored rows.
C8_Witness ==
  /\ call.op = "delete"
  /\ out.ret = RBool(TRUE)
  /\ Cardinality(DOMAIN pre.store.rows) = 2
  /\ Cardinality(DOMAIN store.rows) = 1

\* C9: an insert or update that throws leaves the stored table as it was.
C9_FailedWriteChangesNothing ==
  (call.op \in {"insert", "update"} /\ out.err # NoErr) => store = pre.store

\* C10: with the e-mail column unique, an insert of an e-mail that a stored
\* row already holds throws, returns no row and stores nothing: exactly one
\* row holds that e-mail afterwards.
C10_DuplicateEmailRejected ==
  (call.op = "insert" /\ pre.db.open /\ call.hook # "before"
   /\ RowsWithEmail(pre.store, Get(call.values, "email")) # {}) =>
    /\ out.err # NoErr
    /\ out.ret = RNone
    /\ store = pre.store
    /\ Cardinality(RowsWithEmail(store, call.values["email"])) = 1

\* C10 witness: an insert without identifier failed on the uniqueness of the
\* e-mail, and the one row stored holds that e-mail.
C10_Witness ==
  /\ call.op = "insert"
  /\ "id" \notin DOMAIN call.values
  /\ out.err.msg = "UNIQUE constraint failed"
  /\ Cardinality(DOMAIN store.rows) = 1
  /\ RowsWithEmail(store, call.values["email"]) = DOMAIN store.rows


\* the stored rows a finder's criteria select, all of them, in row order
Matching(st, criteria, params) ==
  selectAll(st, criteria, toSqliteParams(params), 0, 0)

\* C11: findOne is findMany with a limit of 1: on a Connected adapter with
\* the table present it never throws, returns one row or null, and the row
\* is the first of the matching rows left after the caller's offset (the
\* first matching row when no offset is given), null when none is left;
\* findMany with an explicit limit of 1 returns at most one row, the first.
C11_FindOneIsFindManyLimitOne ==
  /\ (call.op = "findOne" /\ pre.db.open /\ store.exists) =>
       LET M == Matching(store, call.criteria, call.params)
           k == call.options.offset
       IN /\ out.err = NoErr
          /\ out.ret = IF Len(M) > k
                       THEN RRow(rehydrate(call.columns, M[k + 1]))
                       ELSE RNull
  /\ (call.op = "findMany" /\ call.options.limit = 1 /\ out.err = NoErr) =>
       LET M == Matching(store, call.criteria, call.params)
       IN /\ Len(out.ret.rows) <= 1
          /\ Len(M) > 0 =>
               out.ret.rows = << rehydrate(call.columns, M[1]) >>

\* C11 witness: findOne, called with no limit of the caller's, has returned
\* one row while two stored rows match its criteria.
C11_Witness ==
  /\ call.op = "findOne"
  /\ call.options = NoOptions
  /\ out.ret.k = "row"
  /\ Len(Matching(store, call.criteria, call.params)) = 2


\* an outcome without its log records
Quiet(o) == [o EXCEPT !.events = SelectSeq(o.events, LAMBDA e : e.ev # "log")]

\* C12: of two adapters driven through the same sequence of calls, one with
\* logging enabled and one with it disabled, after every call both have
\* returned the same value or thrown the same error, handed the same
\* statements to the connection, and are in the same connection state with
\* the same stored table.
C12_LoggingChangesNothing ==
  (~logging /\ call.op \notin {"new", "replay"}) =>
    /\ twin.logging
    /\ call = twin.call
    /\ out.err = twin.out.err
    /\ out.ret = twin.out.ret
    /\ out.options = twin.out.options
    /\ Quiet(out) = Quiet(twin.out)
    /\ db = twin.db
    /\ store = twin.store

\* C12 witness: both adapters have inserted a second row; the logging one
\* wrote a log record, the silent one wrote none.
C12_Witness ==
  /\ ~logging
  /\ call.op = "insert"
  /\ out.err = NoErr
  /\ Cardinality(DOMAIN store.rows) = 2
  /\ \E i \in DOMAIN twin.out.events : twin.out.events[i].ev = "log"
  /\ \A i \in DOMAIN out.events : out.events[i].ev # "log"


\* the method name each operation's log record carries
LogMethod(op) ==
  CASE op = "createTable" -> "createTable"
    [] op = "dropTable" -> "DROP TABLE"
    [] op = "insert" -> "INSERT"
    [] op = "update" -> "update"
    [] op = "delete" -> "DELETE"
    [] op \in {"findMany", "findOne", "findByColumn", "findById"} -> "FINDMANY"
    [] op = "execute" -> "EXECUTE"
    [] op = "query" -> "QUERY"
    [] OTHER -> ""

\* the parameters of a call's statement, as the operation receives or
\* builds them
LoggedParams(c) ==
  CASE c.op = "insert" -> insertValues(c.columns, c.values, c.now)
    [] c.op = "update" -> updateValues(c.columns, c.values, c.now)
    [] c.op = "delete" -> [k \in {"ID"} |-> c.id]
    [] c.op = "findById" -> [k \in {"id"} |-> c.id]
    [] OTHER -> c.params

\* C13: while logging is enabled, a call that hands any statement to the
\* connection has first written a log record, and only one: the record
\* carries the operation's method name, the text of the statement the
\* operation then executes and its parameters, and every statement the call
\* hands to the connection comes after that record.
C13_LogBeforeExecution ==
  (logging /\ Executed(out.events) # {}) =>
    LET ev == out.events
    IN /\ ev[1].ev = "log"
       /\ ev[1].what = LogMethod(call.op)
       /\ \E k \in DOMAIN ev[1].stmts : ev[1].stmts[k] = ev[2].what
       /\ ev[1].params = LoggedParams(call)
       /\ Executed(ev) = 2..Len(ev)

\* C13 witness: the logging adapter has updated a row: a log record, then
\* the UPDATE, then the re-read.
C13_Witness ==
  /\ logging
  /\ call.op = "update"
  /\ out.err = NoErr
  /\ Len(out.events) = 3
  /\ out.events[1].ev = "log"
  /\ out.events[2].what = "UPDATE"


\* the rows each way of reading hands back for the row `id`, right now:
\* findById, findByColumn on the e-mail, findOne on the e-mail, and the
\* rows of findMany and of query that carry the identifier
ReadBack(columns, id, email) ==
  LET one == {findByColumnOut("findById", "users", columns, "id", id, NoOptions),
              findByColumnOut("findByColumn", "users", columns, "email", email, NoOptions),
              findOneOut("findOne", "users", columns, Eq("email", "email"),
                         [k \in {"email"} |-> email], NoOptions)}
      many == findManyOut("findMany", "users", columns, NoCriteria, EmptyObj, NoOptions)
  IN {o.ret.row : o \in {x \in one : x.ret.k = "row"}}
     \cup {many.ret.rows[i] : i \in {j \in DOMAIN many.ret.rows :
                                       many.ret.rows[j]["id"] = id}}

\* C14: a row inserted with a boolean flag and a Date D for created_at is
\* stored as 0/1 and as ISO text, and comes back from insert and from every
\* finder with the same boolean as a boolean and a Date equal to D, under
\* the column names as declared.
C14_CoercionRoundTrip ==
  (call.op = "insert" /\ out.err = NoErr
   /\ Get(call.values, "active").t = "bool"
   /\ Get(call.values, "created_at").t = "date") =>
    LET row == out.ret.row
        stored == store.rows[row["id"].v]
        back == ReadBack(call.columns, row["id"], row["email"])
    IN /\ stored["ACTIVE"] = Num(call.values["active"].v)
       /\ stored["CREATED_AT"] = V("iso", call.values["created_at"].v)
       /\ Cardinality(back) = 1
       /\ \A r \in back \cup {row} :
            /\ DOMAIN r = Declared(call.columns)
            /\ r["active"] = call.values["active"]
            /\ r["created_at"] = call.values["created_at"]

\* C14 witness: a row with a false flag and a Date of the caller's own has
\* been inserted next to another row.
C14_Witness ==
  /\ call.op = "insert"
  /\ out.err = NoErr
  /\ Get(call.values, "active") = JFalse
  /\ Get(call.values, "created_at") = Date(MaxTime + 1)
  /\ out.ret.row["created_at"] = Date(MaxTime + 1)
  /\ Cardinality(DOMAIN store.rows) = 2


\* C15: createTable on a Connected adapter succeeds whether or not the
\* table is there; when the table is there already, made by an earlier
\* createTable of the same columns, the call leaves the schema, the indexes
\* and the stored rows as they were; and the same call made once more would
\* succeed again and change nothing.
C15_CreateTableIdempotent ==
  (call.op = "createTable" /\ pre.db.open) =>
    LET again == runAll(store, sqlCreateTable("USERS", call.columns))
    IN /\ out.err = NoErr
       /\ out.ret = RBool(TRUE)
       /\ store.exists
       /\ store.indexes # {}
       /\ pre.store.exists => store = pre.store
       /\ again.err = "none"
       /\ again.store = store

\* C15 witness: createTable has been called, and has returned, on a table
\* that was there already and holds rows.
C15_Witness ==
  /\ call.op = "createTable"
  /\ out.err = NoErr
  /\ pre.store.exists
  /\ DOMAIN pre.store.rows # {}
  /\ store = pre.store

\* C16: every table name, column name, index name and bind-token name in the
\* text the synthesizer and the criteria compiler generate is uppercase,
\* whatever the casing of the caller's input: upper-casing a generated name
\* leaves it as it is.
C16_GeneratedNamesUppercase ==
  \A name \in out.names : upperText(name) = name

\* the number of combinator nodes holding an array, at any depth
RECURSIVE combinatorNodes(_)
combinatorNodes(criteria) ==
  LET RECURSIVE sum(_)
      sum(ns) == IF ns = << >> THEN 0 ELSE Head(ns) + sum(Tail(ns))
      inside(e) ==
        IF startsWithDollar(upperText(e.key)) /\ e.val.t = "array"
        THEN 1 + sum([i \in DOMAIN e.val.items |-> combinatorNodes(e.val.items[i])])
        ELSE 0
  IN sum([i \in DOMAIN criteria |-> inside(criteria[i])])

\* the number of words of a text that are the keyword s
countOf(text, s) == Cardinality({i \in DOMAIN text : text[i] = Kw(s)})

\* the criteria {"$or": [{a: 1}, {b: 2}]}
OrOfTwo ==
  << Entry(<< "$or" >>, List(<< << Entry(<< "a" >>, Scalar) >>,
                                << Entry(<< "b" >>, Scalar) >> >>)) >>

\* the keyword of a combinator key, in any casing
KeywordOf(key) ==
  IF key \in {<< "$or" >>, << "$Or" >>, << "$OR" >>} THEN "OR" ELSE "AND"

\* the entries of a criteria object compiled one by one
EachCompiled(criteria) ==
  [i \in DOMAIN criteria |-> buildWhereClause(<< criteria[i] >>).text]

\* C17: a criteria object that is one $and / $or node holding an array
\* compiles to "(", the compiled children joined with the node's keyword,
\* ")"; at any depth every such node adds exactly one pair of parentheses;
\* {"$or": [{a: 1}, {b: 2}]} compiles to (A = @A OR B = @B); and the entries
\* of a criteria object with several keys (column nodes, and combinators
\* holding an array) are joined with AND.
C17_CombinatorsCompile ==
  (call.op = "buildWhereClause" /\ out.err = NoErr) =>
    LET criteria == call.where
        node == criteria[1]
        children == [i \in DOMAIN node.val.items |->
                       buildWhereClause(node.val.items[i]).text]
    IN /\ (/\ Len(criteria) = 1
           /\ node.key \in CombinatorKeys \ {<< "$nor" >>}
           /\ node.val.t = "array") =>
            out.text = << Kw("(") >> \o join(children, Kw(KeywordOf(node.key)))
                       \o << Kw(")") >>
       /\ (\A i \in DOMAIN criteria : criteria[i].val.t # "object") =>
            /\ countOf(out.text, "(") = combinatorNodes(criteria)
            /\ countOf(out.text, ")") = combinatorNodes(criteria)
       /\ criteria = OrOfTwo =>
            out.text = << Kw("("), ColName(<< "A" >>), Kw("="), BindToken(<< "A" >>),
                          Kw("OR"), ColName(<< "B" >>), Kw("="), BindToken(<< "B" >>),
                          Kw(")") >>
       /\ (/\ Len(criteria) > 1
           /\ \A i \in DOMAIN criteria :
                (criteria[i].val.t = "array") = (criteria[i].key \in CombinatorKeys)) =>
            out.text = join(EachCompiled(criteria), Kw("AND"))

\* a combinator inside a combinator has been compiled
C17_Witness ==
  /\ call.op = "buildWhereClause"
  /\ out.err = NoErr
  /\ call.where \in Nested
  /\ call.where[1].key # call.where[1].val.items[2][1].key
  /\ countOf(out.text, "(") = 2

\* the fields other than the identifier that an update sets
FieldsSet(c) == (DOMAIN c.values \cap Declared(c.columns)) \ {"id"}

\* findById and findMany, called after an update of row i, give the row
\* with every field the update set equal to the value supplied
FindersSeeUpdate ==
  LET i == call.values["id"]
      found == findByColumnOut("findById", "users", call.columns, "id", i, NoOptions)
      many == findManyOut("findMany", "users", call.columns, Eq("id", "id"),
                          [k \in {"id"} |-> i], NoOptions)
  IN /\ found.err = NoErr
     /\ found.ret.k = "row"
     /\ \A k \in FieldsSet(call) : Get(found.ret.row, k) = call.values[k]
     /\ many.err = NoErr
     /\ Len(many.ret.rows) = 1
     /\ \A k \in FieldsSet(call) : Get(many.ret.rows[1], k) = call.values[k]

\* Model.update on an instance holding values, given the row the adapter's
\* update handed back: the row is assigned to the instance, whose data is
\* returned
modelUpdate(columns, values, row) ==
  getData(columns, setData(getData(columns, values), row))

\* C18: after a successful update of the row with identifier i that sets a
\* field, the finders return row i with that field equal to the new value,
\* and the Model instance that made the update, once the row handed back by
\* update is assigned to it, carries the new value as well.
C18_UpdateIsVisible ==
  (call.op = "update" /\ out.err = NoErr) =>
    /\ FindersSeeUpdate
    /\ \A k \in FieldsSet(call) :
         Get(modelUpdate(call.columns, call.values, out.ret.row), k) = call.values[k]

\* C19: on a Connected adapter, execute with a statement the engine accepts
\* runs the statement and returns without an error.
C19_ExecuteRunsStatement ==
  (call.op = "execute" /\ pre.db.open /\ pre.store.exists) =>
    /\ out.err = NoErr
    /\ \E i \in DOMAIN out.events : out.events[i].ev = "run"

\* the messages of the errors the storage engine raises
EngineMessages ==
  {"no such table", "table already exists", "index already exists",
   "UNIQUE constraint failed", "NOT NULL constraint failed", "syntax error"}

\* C20: an error the storage engine raised while an operation ran reaches
\* the caller as an error that names the operation that was called.
C20_EngineErrorNamesOperation ==
  /\ out.err.msg \in EngineMessages => out.err.op = call.op
  /\ (call.op = "connect" /\ out.err # NoErr) => out.err.op = call.op

\* the stored rows a finder of the Model instance looks for
Sought(c, st) ==
  IF c.op = "Model.findById"
  THEN Matching(st, Eq("id", "id"), [k \in {"id"} |-> c.id])
  ELSE Matching(st, c.criteria, c.params)

\* C21: Model.findById and Model.findOne, on a Connected adapter with the
\* table present, do not throw: they return null when no stored row matches
\* and a row when one matches (and none is skipped by an offset).
C21_ModelFindersReturnNull ==
  (call.op \in {"Model.findById", "Model.findOne"}
   /\ pre.db.open /\ pre.store.exists) =>
    /\ out.err = NoErr
    /\ Sought(call, pre.store) = << >> => out.ret = RNull
    /\ (Sought(call, pre.store) # << >> /\ call.options.offset = 0) => out.ret.k = "row"

\* C22: for a column list with at most one primaryKey column, createTable
\* returns one CREATE TABLE IF NOT EXISTS statement, then one CREATE INDEX IF
\* NOT EXISTS statement per indexed column in declared order, UNIQUE exactly
\* when the column is unique; in CREATE TABLE the primary-key column comes
\* first as INTEGER PRIMARY KEY, AUTOINCREMENT when auto and NOT NULL when
\* not, and the other columns follow once each in declared order.
C22_CreateTableStatements ==
  (call.op = "createTable"
   /\ Cardinality({i \in DOMAIN call.columns : call.columns[i].primaryKey}) <= 1) =>
    LET stmts == out.text
        cols == call.columns
        keys == SelectSeq(cols, LAMBDA c : c.primaryKey)
        others == SelectSeq(cols, LAMBDA c : ~c.primaryKey)
        indexed == SelectSeq(cols, LAMBDA c : c.indexed)
        defs == stmts[1].defs
    IN /\ out.err = NoErr
       /\ Len(stmts) = 1 + Len(indexed)
       /\ stmts[1].kind = "CREATE TABLE IF NOT EXISTS"
       /\ stmts[1].table = toUpperCase(call.table)
       /\ \A i \in DOMAIN indexed :
            /\ stmts[i + 1].kind = "CREATE INDEX IF NOT EXISTS"
            /\ stmts[i + 1].table = toUpperCase(call.table)
            /\ stmts[i + 1].cols = {toUpperCase(indexed[i].name)}
            /\ stmts[i + 1].uniq = indexed[i].unique
       /\ Len(defs) = Len(cols)
       /\ \A i \in DOMAIN keys :
            /\ defs[1].name = toUpperCase(keys[i].name)
            /\ defs[1].type = "INTEGER PRIMARY KEY"
            /\ defs[1].pk
            /\ defs[1].auto = keys[i].auto
            /\ defs[1].notnull = ~keys[i].auto
       /\ \A i \in DOMAIN others :
            /\ defs[i + Len(keys)].name = toUpperCase(others[i].name)
            /\ ~defs[i + Len(keys)].pk
            /\ defs[i + Len(keys)].type = mapTypeToSQLite(others[i].type)

\* C22 witness: statements were made for three columns with the primary key
\* declared last and two indexed columns, one of them unique
C22_Witness ==
  /\ call.op = "createTable"
  /\ Len(call.columns) = 3
  /\ call.columns[3].primaryKey /\ ~call.columns[3].indexed
  /\ call.columns[1].indexed /\ call.columns[1].unique
  /\ call.columns[2].indexed /\ ~call.columns[2].unique
  /\ Len(out.text) = 3
  /\ out.text[1].defs[1].pk

\* the positions of the bind tokens in a text
bindsOf(text) == {i \in DOMAIN text : text[i].kind = "bind"}

\* a criteria object that is one column node with one operator
OneOperator(criteria) ==
  /\ Len(criteria) = 1
  /\ ~startsWithDollar(upperText(criteria[1].key))
  /\ criteria[1].val.t = "object"
  /\ Len(criteria[1].val.ops) = 1

\* C23: a column node whose operator is IN with an array of n operands
\* compiles to <COLUMN> IN ( ... ) with exactly n placeholders, pairwise
\* distinct, each named by the column and one index of 0..n-1.
C23_InArity ==
  (/\ call.op = "buildWhereClause"
   /\ OneOperator(call.where)
   /\ call.where[1].val.ops[1].op = "IN"
   /\ call.where[1].val.ops[1].n >= 0) =>
    LET n == call.where[1].val.ops[1].n
        col == upperText(call.where[1].key)
    IN /\ out.err = NoErr
       /\ Len(out.text) >= 4
       /\ out.text[1] = ColName(col)
       /\ out.text[2] = Kw("IN")
       /\ Cardinality(bindsOf(out.text)) = n
       /\ Cardinality({out.text[i] : i \in bindsOf(out.text)}) = n
       /\ \A i \in bindsOf(out.text) :
            \E k \in 0..(n - 1) :
              /\ Len(out.text[i].parts) = Len(col) + 2
              /\ SubSeq(out.text[i].parts, 1, Len(col)) = col
              /\ out.text[i].parts[Len(col) + 2] = ToString(k)

\* C23 witness: an IN with MaxList operands has been compiled
C23_Witness ==
  /\ call.op = "buildWhereClause"
  /\ OneOperator(call.where)
  /\ call.where[1].val.ops[1] = Op("IN", MaxList)
  /\ out.err = NoErr
  /\ Cardinality(bindsOf(out.text)) = MaxList

\* C24: a BETWEEN entry whose operand is not an array of exactly two bounds
\* is rejected: the compilation ends with an error and no fragment.
C24_BetweenNeedsTwoBounds ==
  (/\ call.op = "buildWhereClause"
   /\ OneOperator(call.where)
   /\ toUpperCase(call.where[1].val.ops[1].op) = "BETWEEN"
   /\ call.where[1].val.ops[1].n # 2) =>
    /\ out.err # NoErr
    /\ out.text = << >>

\* the keys of values that spell the identifier, in any casing
IdKeys(values) == {k \in DOMAIN values : toUpperCase(k) = "ID"}

\* C25: the synthesizer's update succeeds whenever values holds an
\* identifier key, in any casing, with a value that is not null, and then
\* its SET list names every other key, upper-cased, and never the
\* identifier; it fails with the missing-identifier error when values holds
\* no identifier key.
C25_UpdateTakesAnyIdCasing ==
  call.op = "update" =>
    /\ (\E k \in IdKeys(call.values) : call.values[k] \notin {NULL, UNDEF}) =>
         /\ out.err = NoErr
         /\ out.text[1].cols =
              {toUpperCase(k) : k \in DOMAIN call.values \ IdKeys(call.values)}
    /\ IdKeys(call.values) = {} =>
         out.err = Err("The 'id' property must be provided and not be null.", "")

\* C26: the bind tokens of one compiled fragment are pairwise different: no
\* two placeholders of the text carry the same name.
C26_BindTokensDistinct ==
  (call.op = "buildWhereClause" /\ out.err = NoErr) =>
    \A i, j \in bindsOf(out.text) : i # j => out.text[i] # out.text[j]

\* the criteria with the key of its one operator written in upper case
UpperOperator(criteria) ==
  << Entry(criteria[1].key,
           Cond(<< Op(toUpperCase(criteria[1].val.ops[1].op),
                      criteria[1].val.ops[1].n) >>)) >>

\* C27: operator keys are matched whatever their casing: a criteria whose
\* operator key (LIKE, IN, BETWEEN, IS NULL, IS NOT NULL) is written in lower
\* or mixed case compiles without error to the fragment of the criteria that
\* writes the key in upper case.
C27_OperatorKeysAnyCasing ==
  (/\ call.op = "buildWhereClause"
   /\ OneOperator(call.where)
   /\ toUpperCase(call.where[1].val.ops[1].op)
        \in {"LIKE", "IN", "BETWEEN", "IS NULL", "IS NOT NULL"}
   /\ buildWhereClause(UpperOperator(call.where)).err = "none") =>
    /\ out.err = NoErr
    /\ out.text = buildWhereClause(UpperOperator(call.where)).text

\* the columns of the table that an update call supplies a value for
Supplied(c) ==
  {toUpperCase(k) : k \in {j \in DOMAIN c.values :
                             \E n \in Declared(c.columns) :
                               toUpperCase(n) = toUpperCase(j)}}

\* C28: a successful update of the row with identifier i changes that row
\* only, and in it only the columns supplied and UPDATED_AT: the other rows,
\* the identifier of row i and every column of it that was not supplied
\* (CREATED_AT among them) are as they were before the call, and so are the
\* table's definition and its identifier counter.
C28_UpdateChangesOnlySupplied ==
  (call.op = "update" /\ out.err = NoErr) =>
    LET i == call.values["id"].v
    IN /\ DOMAIN store.rows = DOMAIN pre.store.rows
       /\ i \in DOMAIN store.rows
       /\ \A r \in DOMAIN store.rows \ {i} : store.rows[r] = pre.store.rows[r]
       /\ store.rows[i]["ID"] = pre.store.rows[i]["ID"]
       /\ \A c \in colNames(store) \ (Supplied(call) \cup {"UPDATED_AT"}) :
            store.rows[i][c] = pre.store.rows[i][c]
       /\ store.defs = pre.store.defs
       /\ store.indexes = pre.store.indexes
       /\ store.seq = pre.store.seq
       /\ db = pre.db

\* C28 witness: with two rows stored, an update of the first has changed its
\* flag; the row was created at an instant other than the update's
C28_Witness ==
  /\ call.op = "update"
  /\ out.err = NoErr
  /\ Cardinality(DOMAIN store.rows) = 2
  /\ call.values["id"] = Num(1)
  /\ "active" \in DOMAIN call.values
  /\ store.rows[1]["ACTIVE"] # pre.store.rows[1]["ACTIVE"]
  /\ store.rows[1]["CREATED_AT"] # toISOString(Date(call.now))

\* C29: findOne, findByColumn and findById leave the options object they
\* are passed as it was: it holds the same limit and offset after the call,
\* and findMany called with it next returns what it returns with the
\* options as the caller made them.
C29_FindersKeepOptions ==
  call.op \in {"findOne", "findByColumn", "findById"} =>
    /\ out.options = call.options
    /\ findManyOut("findMany", "users", userColumns, NoCriteria, EmptyObj,
                   out.options).ret
       = findManyOut("findMany", "users", userColumns, NoCriteria, EmptyObj,
                     call.options).ret

\* C30: reverse coercion keeps null: a BOOLEAN or TIMESTAMP column that the
\* engine hands over as NULL is null in the row given to the caller.
C30_NullStaysNull ==
  call.op = "fromSQLiteValues" =>
    \A k \in DOMAIN call.values :
      (/\ findColumn(call.columns, k) # 0
       /\ call.columns[findColumn(call.columns, k)].type \in {"BOOLEAN", "TIMESTAMP"}
       /\ call.values[k] = NULL) => out.row[k] = NULL

====
